---- MODULE Spec2Model ----
(***************************************************************************)
(* Hybrid retrieval session of retriever/query_retriever.py:               *)
(* query expansion, dense + lexical fan-out over the query variants,       *)
(* reciprocal rank fusion, sort and assembly of the top-k documents.       *)
(*                                                                         *)
(* Modelling conventions                                                   *)
(*  - a text is a sequence of one-character strings;                       *)
(*  - a python dict is the sequence of its <<key, value>> items in         *)
(*    insertion order (the order sorted() reads them in);                  *)
(*  - a fused score is the exact rational sum of the 1/(k+rank) terms,     *)
(*    held as an integer numerator over the common denominator             *)
(*    Denominator(k); the code adds IEEE doubles, whose rounding is not    *)
(*    modelled;                                                            *)
(*  - the module-level knobs USE_MULTI_QUERY, USE_HYDE and N_REWRITES are  *)
(*    configuration drawn at Init;                                         *)
(*  - calls is a history variable: the backend invocations made so far;    *)
(*  - a session is entered either by a direct call of retrieve_docs or     *)
(*    through generate_answer (generation/generate_answer.py), asked_k is  *)
(*    the k the caller passes; an integer that reaches a path parameter is *)
(*    the file descriptor of that number.                                  *)
(***************************************************************************)
EXTENDS Integers, Sequences, FiniteSets, TLC

VARIABLES pc, caller, asked_k, prompt_docs, query, k, bm25_dir, dirs, corpus,
          HAS_BM25, USE_MULTI_QUERY, USE_HYDE, N_REWRITES,
          queries, expansion, qi, doc_bank, ranked_lists, calls,
          fused, top_ids, top_docs

vars == <<pc, caller, asked_k, prompt_docs, query, k, bm25_dir, dirs, corpus,
          HAS_BM25, USE_MULTI_QUERY, USE_HYDE, N_REWRITES,
          queries, expansion, qi, doc_bank, ranked_lists, calls,
          fused, top_ids, top_docs>>

(***************************************************************************)
(* Program constants                                                       *)
(***************************************************************************)
DENSE_TOP_K == 60
BM25_TOP_K == 60
RRF_K == 60
RETRIEVAL_BUFFER == 30
FINAL_TOP_K == 5
BM25_DIR == "vectorstores/bm25_index"

(***************************************************************************)
(* Bounds of the exploration                                               *)
(***************************************************************************)
MaxK == 2          \* requested k ranges over 0..MaxK
MaxLines == 2      \* lines in the paraphrase response
MaxRewrites == 2   \* N_REWRITES ranges over 0..MaxRewrites

\* Document keys of the indexed corpus. "U" is a chunk stored without a doc_id.
Ids == {"A", "B", "C", "U"}
Unkeyed == {"U"}
Corpora == {{"A"}, {"A", "U"}, {"A", "B", "C"}}
\* Largest number of query variants explored with a corpus of the given size.
VariantCap(c) == 4 - Cardinality(c)
\* Longest ranked list: a backend returns each indexed chunk at most once.
MaxRank == Cardinality(Ids)

Min(a, b) == IF a <= b THEN a ELSE b
Max(a, b) == IF a >= b THEN a ELSE b
Range(s) == {s[i] : i \in 1..Len(s)}
\* python s[:n] for n >= 0
Take(s, n) == SubSeq(s, 1, Min(n, Len(s)))
\* the duplicate-free sequences over S of length at most n
RECURSIVE Arrangements(_, _)
Arrangements(S, n) ==
  IF n = 0 \/ S = {} THEN {<<>>}
  ELSE {<<>>} \cup UNION {{<<x>> \o t : t \in Arrangements(S \ {x}, n - 1)} : x \in S}
\* the sequences over S of length at most n
RECURSIVE SeqsUpTo(_, _)
SeqsUpTo(S, n) ==
  IF n = 0 THEN {<<>>}
  ELSE {<<>>} \cup {<<x>> \o t : x \in S, t \in SeqsUpTo(S, n - 1)}

(***************************************************************************)
(* Texts: str.lower, str.strip                                             *)
(***************************************************************************)
Whitespace == {" "}
LowerChar(c) == IF c = "Q" THEN "q" ELSE IF c = "P" THEN "p" ELSE c
Lower(s) == [i \in 1..Len(s) |-> LowerChar(s[i])]
RECURSIVE LStrip(_, _)
LStrip(s, cs) == IF s # <<>> /\ Head(s) \in cs THEN LStrip(Tail(s), cs) ELSE s
RECURSIVE RStrip(_, _)
RStrip(s, cs) ==
  IF s # <<>> /\ s[Len(s)] \in cs THEN RStrip(SubSeq(s, 1, Len(s) - 1), cs) ELSE s
Strip(s, cs) == RStrip(LStrip(s, cs), cs)

(***************************************************************************)
(* Query expansion: _generate_rewrites_openai and its caller's try/except  *)
(***************************************************************************)
\* What a call to a backend can do: raise, or return a value.
Raised == [ok |-> FALSE, val |-> <<>>]
Returned(v) == [ok |-> TRUE, val |-> v]
\* A paraphrase content is the sequence of its lines (content.splitlines()).
LineSamples == { <<"q">>, <<"p">>, <<"-", " ", "p">>, <<" ">>, <<"-">> }
ParaphraseOutcomes == {Raised} \cup {Returned(c) : c \in SeqsUpTo(LineSamples, MaxLines)}
HydeOutcomes == {Raised, Returned(<<" ", "h">>)}

\* Step 2, first comprehension: strip the bullets of the non-blank lines
RECURSIVE CleanLines(_)
CleanLines(lines) ==
  IF lines = <<>> THEN <<>>
  ELSE LET ln == Head(lines)
           rest == CleanLines(Tail(lines))
       IN IF Strip(ln, Whitespace) # <<>>
          THEN <<Strip(Strip(ln, {"-", " "}), Whitespace)>> \o rest
          ELSE rest

\* Step 2, second comprehension: keep r when r and r.lower() != query.lower()
RECURSIVE DropOriginal(_, _)
DropOriginal(rs, q) ==
  IF rs = <<>> THEN <<>>
  ELSE LET r == Head(rs)
           rest == DropOriginal(Tail(rs), q)
       IN IF r # <<>> /\ Lower(r) # Lower(q) THEN <<r>> \o rest ELSE rest

Paraphrases(q, n, content) == Take(DropOriginal(CleanLines(content), q), n)

\* _generate_rewrites_openai: the list it returns, unless one of its calls raises.
\* The hypothetical-answer call is made only when hyde is set.
GenerateRewrites(q, n, hyde, para, hy) ==
  IF ~para.ok THEN Raised
  ELSE IF hyde
       THEN IF ~hy.ok THEN Raised
            ELSE Returned(<<q>> \o Append(Paraphrases(q, n, para.val),
                                          Strip(hy.val, Whitespace)))
       ELSE Returned(<<q>> \o Paraphrases(q, n, para.val))

\* Mutant: the paraphrases survive a failed hypothetical-answer call
QueryVariantsKeepPartial(q, multi, n, hyde, para, hy) ==
  IF multi /\ para.ok THEN <<q>> \o Paraphrases(q, n, para.val) ELSE <<q>>

\* retrieve_docs Step 2: the variants the session works with
QueryVariants(q, multi, n, hyde, para, hy) ==
  IF multi
  THEN IF GenerateRewrites(q, n, hyde, para, hy).ok
       THEN GenerateRewrites(q, n, hyde, para, hy).val
       ELSE <<q>>
  ELSE <<q>>

\* How Step 2 went
ExpansionOutcome(multi, hyde, para, hy) ==
  IF ~multi THEN "disabled"
  ELSE IF ~para.ok THEN "paraphrase_failed"
  ELSE IF hyde /\ ~hy.ok THEN "hyde_failed"
  ELSE "ok"

(***************************************************************************)
(* Documents and the two retrieval backends                                *)
(***************************************************************************)
\* The chunk with key i as the FAISS store returns it (metadata written by
\* split_parent_child) and as search_bm25 rebuilds it (no parent_id).
\* A doc_id of "" stands for a missing or empty doc_id.
DenseDoc(i) ==
  [page_content |-> i,
   metadata |-> [doc_id |-> IF i \in Unkeyed THEN "" ELSE i,
                 source |-> "s", parent_id |-> "s::p1"]]
LexDoc(i) ==
  [page_content |-> i,
   metadata |-> [doc_id |-> IF i \in Unkeyed THEN "" ELSE i,
                 source |-> "s", parent_id |-> ""]]

\* hash(page_content): a fixed injective function within one process
Hash(content) == "#" \o content
\* (d.metadata or {}).get("doc_id") or f"{source}-{hash(d.page_content)}"
DocId(d) ==
  IF d.metadata.doc_id # "" THEN d.metadata.doc_id
  ELSE d.metadata.source \o "-" \o Hash(d.page_content)

\* The rankings a backend can return for one query over corpus c with top_k
Rankings(c, top_k) == Arrangements(c, Min(top_k, Cardinality(c)))
\* The documents of a ranking, as each backend builds them
DenseDocs(ranking) == [i \in 1..Len(ranking) |-> DenseDoc(ranking[i])]
LexDocs(ranking) == [i \in 1..Len(ranking) |-> LexDoc(ranking[i])]
\* (Document, score) pairs; the score is the backend's own, higher is closer
ScoredHits(ds) == [i \in 1..Len(ds) |-> <<ds[i], Len(ds) - i + 1>>]
UnscoredHits(ds) == [i \in 1..Len(ds) |-> <<ds[i], 0>>]

\* _dense_search: similarity_search_with_score, and similarity_search with
\* scores 0.0 when that raises; it raises when both do.
DenseSearch(with_score, plain) ==
  IF with_score.ok THEN Returned(ScoredHits(DenseDocs(with_score.val)))
  ELSE IF plain.ok THEN Returned(UnscoredHits(DenseDocs(plain.val)))
  ELSE Raised
\* search_bm25: opens the index and searches it, or raises
SearchBm25(res) ==
  IF res.ok THEN Returned(ScoredHits(LexDocs(res.val))) ELSE Raised

BackendOutcomes(c, top_k) == {Raised} \cup {Returned(r) : r \in Rankings(c, top_k)}

\* Mutant: the bank keeps the last document seen under each id
RECURSIVE AccumulateLastWins(_, _, _)
AccumulateLastWins(hits, ids, bank) ==
  IF hits = <<>> THEN [ids |-> ids, bank |-> bank]
  ELSE LET d == Head(hits)[1]
           doc_id == DocId(d)
       IN AccumulateLastWins(Tail(hits), Append(ids, doc_id),
                             [x \in DOMAIN bank \cup {doc_id} |->
                                IF x = doc_id THEN d ELSE bank[x]])

\* Steps 4.2 and 4.3's inner loop: collect the ids, cache the first document
\* seen under each id
RECURSIVE Accumulate(_, _, _)
Accumulate(hits, ids, bank) ==
  IF hits = <<>> THEN [ids |-> ids, bank |-> bank]
  ELSE LET d == Head(hits)[1]
           doc_id == DocId(d)
       IN Accumulate(Tail(hits), Append(ids, doc_id),
                     IF doc_id \in DOMAIN bank THEN bank ELSE bank @@ (doc_id :> d))

\* An integer used as a path: os.path.isdir and os.listdir take it for an
\* open file descriptor
FdPath(n) == "fd:" \o ToString(n)
\* os.path.isdir
IsDir(path) == path \in dirs
\* What search_bm25 can do on index_dir: whoosh finds no index behind a
\* descriptor, so open_dir raises there
LexicalOutcomes(index_dir, c) ==
  IF index_dir = BM25_DIR THEN BackendOutcomes(c, BM25_TOP_K) ELSE {Raised}
\* Step 4.3's guard
LexicalEnabled == HAS_BM25 /\ IsDir(bm25_dir)

\* Mutant: a failed lexical call still contributes an (empty) ranked list
AfterLexicalAlwaysAppends(lists, bank, res) ==
  LET acc == Accumulate(res.val, <<>>, bank)
  IN [lists |-> Append(lists, acc.ids), bank |-> acc.bank]

\* Step 4.3's try/except: the ranked lists and the bank after the lexical call
AfterLexical(lists, bank, res) ==
  IF res.ok
  THEN LET acc == Accumulate(res.val, <<>>, bank)
       IN [lists |-> Append(lists, acc.ids), bank |-> acc.bank]
  ELSE [lists |-> lists, bank |-> bank]

(***************************************************************************)
(* Reciprocal rank fusion, sort, assembly                                  *)
(***************************************************************************)
RECURSIVE RankProduct(_, _)
RankProduct(kk, r) == IF r = 0 THEN 1 ELSE (kk + r) * RankProduct(kk, r - 1)
\* Common denominator of the terms 1/(kk + rank), rank in 1..MaxRank
Denominator(kk) == RankProduct(kk, MaxRank)
\* Mutant: ranks counted from 0 (enumerate without start=1)
RankTermFromZero(kk, rank) == Denominator(kk) \div (kk + rank - 1)
\* 1.0 / (k + rank), as a numerator over Denominator(kk)
RankTerm(kk, rank) == Denominator(kk) \div (kk + rank)

\* Mutant: the accumulated score is not read back (scores[doc_id] = term)
ScoreGetForgets(scores, doc_id) == 0
\* scores.get(doc_id, 0.0)
ScoreGet(scores, doc_id) ==
  IF \E i \in 1..Len(scores) : scores[i][1] = doc_id
  THEN scores[CHOOSE i \in 1..Len(scores) : scores[i][1] = doc_id][2]
  ELSE 0
\* Mutant: every contribution is stored as a new item
ScorePutAlwaysAppends(scores, doc_id, v) == Append(scores, <<doc_id, v>>)
\* scores[doc_id] = v: a present key keeps its place, a new key goes last
ScorePut(scores, doc_id, v) ==
  IF \E i \in 1..Len(scores) : scores[i][1] = doc_id
  THEN [i \in 1..Len(scores) |->
          IF scores[i][1] = doc_id THEN <<doc_id, v>> ELSE scores[i]]
  ELSE Append(scores, <<doc_id, v>>)

\* the inner loop of _rrf_fuse over one list, from rank on
RECURSIVE FuseList(_, _, _, _)
FuseList(scores, lst, rank, kk) ==
  IF lst = <<>> THEN scores
  ELSE FuseList(ScorePut(scores, Head(lst),
                         ScoreGet(scores, Head(lst)) + RankTerm(kk, rank)),
                Tail(lst), rank + 1, kk)
RECURSIVE FuseLists(_, _, _)
FuseLists(scores, lists, kk) ==
  IF lists = <<>> THEN scores
  ELSE FuseLists(FuseList(scores, Head(lists), 1, kk), Tail(lists), kk)
\* _rrf_fuse
RrfFuse(lists, kk) == FuseLists(<<>>, lists, kk)

\* Mutant: an ascending sort reversed, which reverses the ties
InsertDescTiesReversed(sorted, item) ==
  LET before == Cardinality({i \in 1..Len(sorted) : sorted[i][2] > item[2]})
  IN SubSeq(sorted, 1, before) \o <<item>> \o SubSeq(sorted, before + 1, Len(sorted))
\* sorted(items, key=score, reverse=True) is stable: an item goes after every
\* item already placed whose score is at least its own
InsertDesc(sorted, item) ==
  LET before == Cardinality({i \in 1..Len(sorted) : sorted[i][2] >= item[2]})
  IN SubSeq(sorted, 1, before) \o <<item>> \o SubSeq(sorted, before + 1, Len(sorted))
RECURSIVE SortDesc(_, _)
SortDesc(sorted, items) ==
  IF items = <<>> THEN sorted
  ELSE SortDesc(InsertDesc(sorted, Head(items)), Tail(items))
\* Step 7
TopIds(scores, kk) ==
  LET sorted == SortDesc(<<>>, scores)
  IN Take([i \in 1..Len(sorted) |-> sorted[i][1]], Max(kk, RETRIEVAL_BUFFER))
\* Mutant: the final [:k] is missing
TopDocsUntruncated(ids, bank, kk) == [i \in 1..Len(ids) |-> bank[ids[i]]]
\* Step 8
TopDocs(ids, bank, kk) == Take([i \in 1..Len(ids) |-> bank[ids[i]]], kk)
\* Step 5's return
FallbackDocs(hits, kk) ==
  LET firsts == Take(hits, kk) IN [i \in 1..Len(firsts) |-> firsts[i][1]]

(***************************************************************************)
(* The session: retrieve_docs(query, persist_path, bm25_dir, k)            *)
(***************************************************************************)
\* Upper bound on the variants Step 2 can produce under the drawn knobs
MaxVariants(multi, n, hyde) == IF multi THEN 1 + n + (IF hyde THEN 1 ELSE 0) ELSE 1

\* retrieve_docs(query, k=kk): the parameters of a direct call
DirectCall(kk) == [bm25_dir |-> BM25_DIR, k |-> kk]
\* generate_answer line 35, retrieve_docs(query, persist_path, k): the third
\* positional parameter of retrieve_docs is bm25_dir, and k keeps its default
GenerateAnswerCall(kk) == [bm25_dir |-> FdPath(kk), k |-> FINAL_TOP_K]

Init ==
  /\ pc = "expand"
  /\ query = <<"Q">>
  /\ caller \in {"retrieve_docs", "generate_answer"}
  /\ asked_k \in 0..MaxK
  /\ LET args == IF caller = "generate_answer"
                 THEN GenerateAnswerCall(asked_k) ELSE DirectCall(asked_k)
     IN k = args.k /\ bm25_dir = args.bm25_dir
  /\ dirs \in {{}, {BM25_DIR}}
            \cup (IF caller = "generate_answer"
                  THEN {{BM25_DIR, FdPath(asked_k)}} ELSE {})
  /\ prompt_docs = <<>>
  /\ corpus \in Corpora
  /\ HAS_BM25 \in BOOLEAN
  /\ USE_MULTI_QUERY \in BOOLEAN
  /\ USE_HYDE \in BOOLEAN
  /\ N_REWRITES \in 0..MaxRewrites
  /\ MaxVariants(USE_MULTI_QUERY, N_REWRITES, USE_HYDE) <= VariantCap(corpus)
  /\ queries = <<>>
  /\ expansion = "pending"
  /\ qi = 0
  /\ doc_bank = [i \in {} |-> i]
  /\ ranked_lists = <<>>
  /\ calls = <<>>
  /\ fused = <<>>
  /\ top_ids = <<>>
  /\ top_docs = <<>>

Config == <<caller, asked_k, prompt_docs, query, k, bm25_dir, dirs, corpus,
            HAS_BM25, USE_MULTI_QUERY, USE_HYDE, N_REWRITES>>

\* The documents of a hit list, as the history keeps them
Docs(hits) == [i \in 1..Len(hits) |-> hits[i][1]]
Call(variant, backend, res) ==
  [variant |-> variant, backend |-> backend, ok |-> res.ok, docs |-> Docs(res.val)]

\* Step 2
Expand ==
  /\ pc = "expand"
  /\ \E para \in ParaphraseOutcomes, hy \in HydeOutcomes :
       /\ queries' = QueryVariants(query, USE_MULTI_QUERY, N_REWRITES, USE_HYDE, para, hy)
       /\ expansion' = ExpansionOutcome(USE_MULTI_QUERY, USE_HYDE, para, hy)
  /\ qi' = 1
  /\ pc' = IF queries' # <<>> THEN "dense" ELSE "fuse"
  /\ UNCHANGED <<Config, doc_bank, ranked_lists, calls, fused, top_ids, top_docs>>

\* Steps 4.1 and 4.2 for the variant queries[qi]; an exception of
\* _dense_search leaves retrieve_docs
DenseStep ==
  /\ pc = "dense"
  /\ \E ws \in BackendOutcomes(corpus, DENSE_TOP_K) :
     \E pl \in IF ws.ok THEN {Raised} ELSE BackendOutcomes(corpus, DENSE_TOP_K) :
       LET res == DenseSearch(ws, pl)
           acc == Accumulate(res.val, <<>>, doc_bank)
       IN /\ calls' = Append(calls, Call(qi, "dense", res))
          /\ IF res.ok
             THEN /\ ranked_lists' = Append(ranked_lists, acc.ids)
                  /\ doc_bank' = acc.bank
                  /\ IF LexicalEnabled
                     THEN pc' = "lexical" /\ qi' = qi
                     ELSE IF qi < Len(queries)
                          THEN pc' = "dense" /\ qi' = qi + 1
                          ELSE pc' = "fuse" /\ qi' = qi
             ELSE /\ pc' = "raised"
                  /\ UNCHANGED <<ranked_lists, doc_bank, qi>>
  /\ UNCHANGED <<Config, queries, expansion, fused, top_ids, top_docs>>

\* Step 4.3 for the variant queries[qi]
LexStep ==
  /\ pc = "lexical"
  /\ \E r \in LexicalOutcomes(bm25_dir, corpus) :
       LET res == SearchBm25(r)
           after == AfterLexical(ranked_lists, doc_bank, res)
       IN /\ calls' = Append(calls, Call(qi, "bm25", res))
          /\ ranked_lists' = after.lists
          /\ doc_bank' = after.bank
  /\ IF qi < Len(queries)
     THEN pc' = "dense" /\ qi' = qi + 1
     ELSE pc' = "fuse" /\ qi' = qi
  /\ UNCHANGED <<Config, queries, expansion, fused, top_ids, top_docs>>

\* Steps 5 and 6: the dense-only return when no ranked list was collected,
\* the fusion otherwise
Fuse ==
  /\ pc = "fuse"
  /\ IF ranked_lists = <<>>
     THEN \E ws \in BackendOutcomes(corpus, DENSE_TOP_K) :
          \E pl \in IF ws.ok THEN {Raised} ELSE BackendOutcomes(corpus, DENSE_TOP_K) :
            LET res == DenseSearch(ws, pl)
            IN /\ calls' = Append(calls, Call(1, "dense", res))
               /\ IF res.ok
                  THEN top_docs' = FallbackDocs(res.val, k) /\ pc' = "done"
                  ELSE top_docs' = top_docs /\ pc' = "raised"
               /\ fused' = fused
     ELSE /\ fused' = RrfFuse(ranked_lists, RRF_K)
          /\ pc' = "sort"
          /\ UNCHANGED <<calls, top_docs>>
  /\ UNCHANGED <<Config, queries, expansion, qi, doc_bank, ranked_lists, top_ids>>

\* Step 7
Sort ==
  /\ pc = "sort"
  /\ top_ids' = TopIds(fused, k)
  /\ pc' = "assemble"
  /\ UNCHANGED <<Config, queries, expansion, qi, doc_bank, ranked_lists, calls,
                 fused, top_docs>>

\* Step 8 and the return
Assemble ==
  /\ pc = "assemble"
  /\ top_docs' = TopDocs(top_ids, doc_bank, k)
  /\ pc' = "done"
  /\ UNCHANGED <<Config, queries, expansion, qi, doc_bank, ranked_lists, calls,
                 fused, top_ids>>

\* generate_answer lines 37-40: no prompt without documents, else every
\* retrieved document enters the prompt
BuildPrompt ==
  /\ pc = "done"
  /\ caller = "generate_answer"
  /\ prompt_docs' = top_docs
  /\ pc' = IF top_docs = <<>> THEN "no_documents" ELSE "prompted"
  /\ UNCHANGED <<caller, asked_k, query, k, bm25_dir, dirs, corpus,
                 HAS_BM25, USE_MULTI_QUERY, USE_HYDE, N_REWRITES,
                 queries, expansion, qi, doc_bank, ranked_lists, calls,
                 fused, top_ids, top_docs>>

Next == Expand \/ DenseStep \/ LexStep \/ Fuse \/ Sort \/ Assemble \/ BuildPrompt

Spec == Init /\ [][Next]_vars

(***************************************************************************)
(* Helpers of the properties                                               *)
(***************************************************************************)
EmptyBank == [i \in {} |-> i]
Produced == pc \in {"sort", "assemble", "done"}
\* What the session returns for collected hit lists: Steps 4.2 to 8 replayed
AsHits(docs) == UnscoredHits(docs)
RECURSIVE Collect(_, _, _)
Collect(docLists, lists, bank) ==
  IF docLists = <<>> THEN [lists |-> lists, bank |-> bank]
  ELSE LET acc == Accumulate(AsHits(Head(docLists)), <<>>, bank)
       IN Collect(Tail(docLists), Append(lists, acc.ids), acc.bank)
SessionDocs(docLists, kk) ==
  LET c == Collect(docLists, <<>>, EmptyBank)
  IN TopDocs(TopIds(RrfFuse(c.lists, RRF_K), kk), c.bank, kk)
RECURSIVE OkCalls(_)
OkCalls(cs) ==
  IF cs = <<>> THEN <<>>
  ELSE IF Head(cs).ok THEN <<Head(cs)>> \o OkCalls(Tail(cs)) ELSE OkCalls(Tail(cs))
OkDocLists == LET ok == OkCalls(calls) IN [i \in 1..Len(ok) |-> ok[i].docs]
Permuted(s, p) == [i \in 1..Len(s) |-> s[p[i]]]
IdsOf(docs) == [i \in 1..Len(docs) |-> DocId(docs[i])]
UniqueIds == UNION {Range(ranked_lists[i]) : i \in 1..Len(ranked_lists)}
ScoreOf(scores, id) == scores[CHOOSE i \in 1..Len(scores) : scores[i][1] = id][2]
DistinctScores(scores) ==
  \A i, j \in 1..Len(scores) : i # j => scores[i][2] # scores[j][2]
RECURSIVE Concat(_)
Concat(lists) == IF lists = <<>> THEN <<>> ELSE Head(lists) \o Concat(Tail(lists))
FirstSeen(id) ==
  LET all == Concat(ranked_lists)
  IN CHOOSE i \in 1..Len(all) : all[i] = id /\ \A j \in 1..(i - 1) : all[j] # id
Position(id, lst) == CHOOSE i \in 1..Len(lst) : lst[i] = id
RECURSIVE ReciprocalRankSum(_, _, _)
ReciprocalRankSum(id, lists, kk) ==
  IF lists = <<>> THEN 0
  ELSE (IF id \in Range(Head(lists))
        THEN Denominator(kk) \div (kk + Position(id, Head(lists)))
        ELSE 0) + ReciprocalRankSum(id, Tail(lists), kk)
SmoothingSamples == {1, 2, RRF_K}
HydeTexts == {Strip(o.val, Whitespace) : o \in {h \in HydeOutcomes : h.ok}}
ParaphrasesOf(qs) == SubSeq(qs, 2, Len(qs) - (IF USE_HYDE THEN 1 ELSE 0))

(***************************************************************************)
(* C1: a dense failure on a variant other than the original is skipped;    *)
(* it never ends the session with the exception.                           *)
(***************************************************************************)
C1_NonOriginalDenseFailureSkipped ==
  \A i \in 1..Len(calls) :
    (calls[i].backend = "dense" /\ ~calls[i].ok /\ calls[i].variant > 1)
      => pc # "raised"

(***************************************************************************)
(* C2: when only the dense call on the original query succeeds, the        *)
(* session returns the first k documents of that call, in its order.       *)
(***************************************************************************)
C2_OnlyOriginalDenseGivesItsTopK ==
  (/\ pc \in {"done", "raised"}
   /\ Len(calls) >= 1
   /\ calls[1].ok
   /\ \A i \in 2..Len(calls) : ~calls[i].ok)
    => (pc = "done" /\ top_docs = Take(calls[1].docs, k))

(***************************************************************************)
(* C3 as stated: the returned sequence (read as document ids) is the same  *)
(* for every order in which the successful calls could have been           *)
(* collected, ties of fused score included.                                *)
(***************************************************************************)
C3_OutputSameForEveryPermutation ==
  (pc = "done" /\ ranked_lists # <<>>)
    => \A p \in Permutations(1..Len(OkDocLists)) :
         IdsOf(SessionDocs(Permuted(OkDocLists, p), k)) = IdsOf(top_docs)

(***************************************************************************)
(* C3 amended: the fused score of every id is the same for every order of  *)
(* the collected lists, and when the fused scores are pairwise distinct    *)
(* the returned ids and their order are the same too.                      *)
(***************************************************************************)
C3_ScoresAndUntiedOrderPermutationInvariant ==
  (pc = "done" /\ ranked_lists # <<>>)
    => \A p \in Permutations(1..Len(OkDocLists)) :
         LET c == Collect(Permuted(OkDocLists, p), <<>>, EmptyBank)
             f == RrfFuse(c.lists, RRF_K)
         IN /\ Range(f) = Range(fused)
            /\ DistinctScores(fused)
                 => IdsOf(TopDocs(TopIds(f, k), c.bank, k)) = IdsOf(top_docs)

C3_Witness ==
  /\ pc = "done"
  /\ Len(ranked_lists) >= 2
  /\ ranked_lists[1] # ranked_lists[2]
  /\ DistinctScores(fused)
  /\ Len(top_docs) >= 2

(***************************************************************************)
(* C4: the sorted ids are in descending fused score, ids of equal score in *)
(* the order of their first occurrence in the concatenated ranked lists,   *)
(* and the sorted ids are a function of the ranked lists and k alone.      *)
(***************************************************************************)
C4_TiesKeepFirstSeenOrder ==
  (pc \in {"assemble", "done"} /\ ranked_lists # <<>>)
    => /\ \A i, j \in 1..Len(top_ids) :
            i < j => \/ ScoreOf(fused, top_ids[i]) > ScoreOf(fused, top_ids[j])
                     \/ /\ ScoreOf(fused, top_ids[i]) = ScoreOf(fused, top_ids[j])
                        /\ FirstSeen(top_ids[i]) < FirstSeen(top_ids[j])
       /\ top_ids = TopIds(RrfFuse(ranked_lists, RRF_K), k)

C4_Witness ==
  /\ pc = "done"
  /\ Len(ranked_lists) >= 2
  /\ \E i, j \in 1..Len(top_ids) :
       /\ i < j
       /\ ScoreOf(fused, top_ids[i]) = ScoreOf(fused, top_ids[j])
       /\ Position(top_ids[i], ranked_lists[1]) > 1

(***************************************************************************)
(* C5: the returned documents have pairwise different document ids.        *)
(***************************************************************************)
C5_NoDuplicateIds ==
  pc = "done"
    => \A i, j \in 1..Len(top_docs) :
         i # j => DocId(top_docs[i]) # DocId(top_docs[j])

C5_Witness ==
  /\ pc = "done"
  /\ Len(top_docs) >= 2
  /\ \E a, b \in 1..Len(calls) :
       /\ calls[a].backend = "dense" /\ calls[b].backend = "bm25"
       /\ \E id \in Range(IdsOf(top_docs)) :
            id \in Range(IdsOf(calls[a].docs)) \cap Range(IdsOf(calls[b].docs))

C7_ExpansionFailureSwallowed ==
  pc # "expand"
    => /\ Len(queries) >= 1 /\ queries[1] = query
       /\ expansion \in {"disabled", "paraphrase_failed", "hyde_failed"}
            => queries = <<query>>
       /\ pc = "raised"
            => calls[Len(calls)].backend = "dense" /\ ~calls[Len(calls)].ok

C7_Witness ==
  /\ pc = "done"
  /\ expansion = "hyde_failed"
  /\ N_REWRITES >= 1
  /\ queries = <<query>>

(***************************************************************************)
(* C8: after a successful expansion the variants are the original, then at *)
(* most n paraphrases, none equal to the original whatever the case and    *)
(* none repeated, then the hypothetical answer exactly when USE_HYDE.      *)
(***************************************************************************)
C8_ExpandedVariantsShape ==
  expansion = "ok"
    => LET paras == ParaphrasesOf(queries)
       IN /\ queries[1] = query
          /\ Len(paras) <= N_REWRITES
          /\ \A i \in 1..Len(paras) :
               Lower(paras[i]) # Lower(query) /\ paras[i] \notin HydeTexts
          /\ \A i, j \in 1..Len(paras) : i # j => paras[i] # paras[j]
          /\ USE_HYDE => Len(queries) >= 2 /\ queries[Len(queries)] \in HydeTexts

(***************************************************************************)
(* C9 as stated: _rrf_fuse gives every id of the lists, and no other, the  *)
(* sum over the lists holding it of 1/(k + its rank there); for dense      *)
(* [A, B, C] and lexical [B, C, A] with k = 60 the descending order is     *)
(* B, C, A.                                                                *)
(***************************************************************************)
RankSumsAt(kk) ==
  LET f == RrfFuse(ranked_lists, kk)
  IN /\ {f[i][1] : i \in 1..Len(f)} = UniqueIds
     /\ Len(f) = Cardinality(UniqueIds)
     /\ \A i \in 1..Len(f) : f[i][2] = ReciprocalRankSum(f[i][1], ranked_lists, kk)
ScenarioLists == << <<"A", "B", "C">>, <<"B", "C", "A">> >>

C9_RankSumsAndOrderBCA ==
  Produced
    => /\ fused = RrfFuse(ranked_lists, RRF_K)
       /\ \A kk \in SmoothingSamples : RankSumsAt(kk)
       /\ (pc # "sort" /\ ranked_lists = ScenarioLists) => top_ids = <<"B", "C", "A">>

(***************************************************************************)
(* C9 amended: the same sums; in the scenario A = 1/61 + 1/63 exceeds      *)
(* C = 1/63 + 1/62, so the descending order is B, A, C.                    *)
(***************************************************************************)
C9_RankSumsAndOrderBAC ==
  Produced
    => /\ fused = RrfFuse(ranked_lists, RRF_K)
       /\ \A kk \in SmoothingSamples : RankSumsAt(kk)
       /\ (pc # "sort" /\ ranked_lists = ScenarioLists) => top_ids = <<"B", "A", "C">>

C9_Witness ==
  /\ pc = "done"
  /\ ranked_lists = ScenarioLists
  /\ top_ids = <<"B", "A", "C">>
  /\ ScoreOf(fused, "A") > ScoreOf(fused, "C")

(***************************************************************************)
(* C10: without the lexical capability or the index directory no lexical   *)
(* call is made; a failed lexical call adds no ranked list and does not    *)
(* end the session; every variant is searched; the result is the fusion of *)
(* the lists of the calls that succeeded.                                  *)
(***************************************************************************)
C10_LexicalFailureIsLocal ==
  /\ (~HAS_BM25 \/ ~IsDir(bm25_dir))
       => \A i \in 1..Len(calls) : calls[i].backend # "bm25"
  /\ pc = "raised" => calls[Len(calls)].backend = "dense"
  /\ pc \in {"fuse", "sort", "assemble", "done"}
       => \A v \in 1..Len(queries) :
            /\ \E i \in 1..Len(calls) :
                 calls[i].variant = v /\ calls[i].backend = "dense"
            /\ (HAS_BM25 /\ IsDir(bm25_dir))
                 => \E i \in 1..Len(calls) :
                      calls[i].variant = v /\ calls[i].backend = "bm25"
  /\ (pc = "done" /\ ranked_lists # <<>>)
       => /\ ranked_lists = [i \in 1..Len(OkDocLists) |-> IdsOf(OkDocLists[i])]
          /\ top_docs = SessionDocs(OkDocLists, k)

C10_Witness ==
  /\ pc = "done"
  /\ Len(top_docs) >= 1
  /\ \E i, j \in 1..Len(calls) :
       /\ i < j
       /\ calls[i].backend = "bm25" /\ ~calls[i].ok
       /\ calls[j].backend = "bm25" /\ calls[j].ok /\ calls[j].docs # <<>>

(***************************************************************************)
(* C11: the bank holds, under each id, the document of the first hit that  *)
(* carried the id (no later hit of any backend or variant replaces it);    *)
(* every id of a collected ranked list has a bank entry, so the lookups of *)
(* the fused ids at assembly never miss.                                   *)
(***************************************************************************)
HitDocs == Concat(OkDocLists)
FirstHit(id) ==
  HitDocs[CHOOSE i \in 1..Len(HitDocs) :
            /\ DocId(HitDocs[i]) = id
            /\ \A j \in 1..(i - 1) : DocId(HitDocs[j]) # id]

C11_BankFirstWriteWinsAndCovers ==
  /\ DOMAIN doc_bank = {DocId(HitDocs[i]) : i \in 1..Len(HitDocs)}
  /\ \A id \in DOMAIN doc_bank : doc_bank[id] = FirstHit(id)
  /\ UniqueIds \subseteq DOMAIN doc_bank
  /\ pc \in {"assemble", "done"} => Range(top_ids) \subseteq DOMAIN doc_bank
  /\ (pc = "done" /\ ranked_lists # <<>>)
       => top_docs = [i \in 1..Len(top_docs) |-> FirstHit(top_ids[i])]

C11_Witness ==
  /\ pc = "done"
  /\ \E a, b \in 1..Len(calls) :
       /\ a < b
       /\ calls[a].ok /\ calls[b].ok
       /\ \E i \in 1..Len(calls[a].docs), j \in 1..Len(calls[b].docs) :
            /\ DocId(calls[a].docs[i]) = DocId(calls[b].docs[j])
            /\ calls[a].docs[i] # calls[b].docs[j]
            /\ calls[a].docs[i] \in Range(top_docs)
            /\ calls[a].docs[i] = FirstHit(DocId(calls[a].docs[i]))

(***************************************************************************)
(* C12: a retrieval entered through generate_answer(k) runs with k as its  *)
(* final top-k and with the default lexical index directory, and at most k *)
(* documents enter the prompt.                                             *)
(***************************************************************************)
C12_GenerateAnswerKIsFinalTopK ==
  (caller = "generate_answer" /\ pc = "prompted")
    => /\ k = asked_k
       /\ bm25_dir = BM25_DIR
       /\ Len(prompt_docs) <= asked_k

====
